---- MODULE Spec2Model ----
(***************************************************************************)
(* Personal productivity dashboard backend (FastAPI + SQLAlchemy).         *)
(* The persistent store (users, tasks, habits, notes, daily goals), the    *)
(* request handlers of controllers/*.py and the responses they produce.    *)
(***************************************************************************)
EXTENDS Integers, Sequences, FiniteSets, TLC

VARIABLES
    users,      \* table users: sequence of rows, users[i] has id i
    plain,      \* observation: plain[i] is the password user i registered with
    regs,       \* per worker: the request it holds between its SELECT and its write
    now,        \* the server clock, in whole seconds
    issued,     \* bearer tokens the clients hold
    tasks,      \* table tasks: id -> row
    habits,     \* table habits: id -> row
    notes,      \* table notes: id -> row
    goals,      \* table daily_goals: id -> row
    seq,        \* last id each table's sequence handed out
    resp        \* the request answered last and its response

vars == <<users, plain, regs, now, issued, tasks, habits, notes, goals, seq, resp>>

(***************************************************************************)
(* Bounds of the model and inputs the requests are drawn from.             *)
(***************************************************************************)
MaxRows == 2                     \* rows ever created over the four resource tables

Procs == {"w1", "w2"}            \* concurrent workers serving /register
None == "None"                   \* Python None / SQL NULL
Usernames == {"alice", "bob"}
Emails == {"a@x.io", "username@x.io"}
Passwords == {"pw1", "pw2"}
Salts == {"s1", "s2"}
\* bodies of POST /register (UserSchema; an omitted role arrives as "CUSTOMER")
RegisterRequests ==
    { [username |-> "alice", email |-> "a@x.io", password |-> "pw1", role |-> "CUSTOMER"],
      [username |-> "alice", email |-> "username@x.io", password |-> "pw2", role |-> "admin"],
      [username |-> "bob", email |-> "username@x.io", password |-> "pw1", role |-> "manager"],
      [username |-> "bob", email |-> "a@x.io", password |-> "pw2", role |-> None] }
\* a body whose role does not fit the column users.role, a VARCHAR(50)
LongRoleRequest ==
    [username |-> "bob", email |-> "username@x.io", password |-> "pw2",
     role |-> "A ROLE OF 51 CHARACTERS"]

(***************************************************************************)
(* Strings.  str.upper() and the substring test `x in s` on the strings    *)
(* the model uses.                                                         *)
(***************************************************************************)
Upper(s) ==
    CASE s = "admin" -> "ADMIN"
      [] s = "manager" -> "MANAGER"
      [] s = "customer" -> "CUSTOMER"
      [] OTHER -> s

\* <<s, x>> is here iff x occurs in s (s already lower case)
SubstringPairs ==
    { <<"users_username_key", "username">>, <<"username", "username">>,
      <<"username@x.io", "username">>,
      <<"users_email_key", "email">>, <<"email", "email">> }

Contains(msg, x) == \E i \in 1..Len(msg) : <<msg[i], x>> \in SubstringPairs

(***************************************************************************)
(* models/user.py                                                          *)
(***************************************************************************)
UserRole == {"CUSTOMER", "ADMIN"}
DaySeconds == 86400

\* pwd_context.hash: bcrypt digest with the salt embedded in the output
set_password(password, salt) ==
    [scheme |-> "bcrypt", salt |-> salt, digest |-> <<salt, password>>]

\* the column password_hash is a nullable String: besides the output of
\* set_password it can hold NULL or a text that is no bcrypt hash
AbsentHash == [scheme |-> "NULL"]
MalformedHash == [scheme |-> "unidentified"]

\* pwd_context.verify raises (hash could not be identified) on a text that
\* is no hash of its schemes; verify_password lets the exception pass
verify_password_raises(hash) == hash.scheme \notin {"bcrypt", "NULL"}

\* pwd_context.verify: False for a hash of None, else recompute with the
\* embedded salt and compare
verify_password(password, hash) ==
    /\ hash.scheme = "bcrypt"
    /\ hash = [scheme |-> "bcrypt", salt |-> hash.salt, digest |-> <<hash.salt, password>>]

\* the instants the clock is observed at
Instants == {0, 1, DaySeconds - 1, DaySeconds, DaySeconds + 1}

\* a second datetime.now() in the same handler: the clock has not moved, or
\* it has passed a second boundary
LaterReads(t) == {u \in Instants : t <= u /\ u <= t + 1}

\* generate_token: exp is computed from one clock read, iat from the next
generate_token(id, role, t1, t2) ==
    [sub |-> ToString(id),
     role |-> IF role # None /\ role # "" THEN role ELSE "CUSTOMER",
     exp |-> t1 + DaySeconds,
     iat |-> t2,
     sig |-> "secret"]

\* serializers/user.py UserToken, as response_model of /login: role must be a UserRole
UserToken(body) == body.role \in UserRole

(***************************************************************************)
(* Responses.  resp is the answer on its way to the client: the request it *)
(* answers (op, req), the HTTP status and the JSON body.  The client takes *)
(* it (Deliver) before the next answer is produced.                        *)
(***************************************************************************)
NoResp == [op |-> "none", req |-> [none |-> TRUE], status |-> 0, payload |-> [none |-> TRUE]]

Reply(op, req, status, body) == [op |-> op, req |-> req, status |-> status, payload |-> body]

Ready == resp.op = "none"

Answered == resp.op = "none" /\ resp'.op # "none"

Deliver ==
    /\ resp.op # "none"
    /\ resp' = NoResp
    /\ UNCHANGED <<users, plain, regs, now, issued, tasks, habits, notes, goals, seq>>

\* str(e) of the exceptions the handlers do not expect: the driver's report of
\* a NOT NULL violation with the statement that failed, and the list of the
\* fields a response_model rejected with the values they held
NotNullViolationText == "null value in column violates not-null constraint [SQL: UPDATE]"
ResponseValidationErrorText == "1 validation errors: {'loc': ('response',), 'input': None}"
ExceptionTexts == {NotNullViolationText, ResponseValidationErrorText}

\* main.py lines 92-109: the answer to an exception no handler caught; the
\* message is str(exc) unless exc is an SQLAlchemyError
global_exception_handler(op, req, exc) ==
    Reply(op, req, 500, [error |-> "Internal server error", message |-> exc])

(***************************************************************************)
(* controllers/users.py create_user                                        *)
(***************************************************************************)
Idle == [pc |-> "idle"]

\* rows the pre-check's SELECT ... WHERE username = u OR email = e matches
Existing(u, e) == {i \in 1..Len(users) : users[i].username = u \/ users[i].email = e}

\* lines 36-46: what the pre-check answers when row i is the one .first() returned
ExistingKind(i, user) ==
    IF users[i].username = user.username THEN "Username already exists"
                                          ELSE "Email already exists"

\* lines 17-46: the pre-check; a request that passes it goes on to its INSERT
create_user_check(w, user) ==
    /\ regs[w].pc = "idle"
    /\ IF Existing(user.username, user.email) # {}
       THEN \E i \in Existing(user.username, user.email) :     \* .first(), no ORDER BY
              /\ resp' = Reply("register", user, 200, [error |-> ExistingKind(i, user)])
              /\ UNCHANGED regs
       ELSE /\ regs' = [regs EXCEPT ![w] = [pc |-> "commit", user |-> user]]
            /\ UNCHANGED resp
    /\ UNCHANGED <<users, plain, now, issued, tasks, habits, notes, goals, seq>>

\* lines 48-65: role default, new row, password hash
new_user(user, salt) ==
    [username |-> user.username,
     email |-> user.email,
     role |-> IF user.role # None /\ user.role # "" THEN Upper(user.role) ELSE "CUSTOMER",
     password_hash |-> set_password(user.password, salt)]

UniqueViolation_Unconstrained(row) == <<>>

\* the unique constraints of users.username and users.email: the message of the
\* violation PostgreSQL reports, username's index being checked before email's
UniqueViolation(row) ==
    IF \E i \in 1..Len(users) : users[i].username = row.username
    THEN <<"duplicate key value violates unique constraint", "users_username_key",
           "Key", "username", row.username, "already exists">>
    ELSE IF \E i \in 1..Len(users) : users[i].email = row.email
    THEN <<"duplicate key value violates unique constraint", "users_email_key",
           "Key", "email", row.email, "already exists">>
    ELSE <<>>

\* models/user.py line 25, role = Column(String(50)): PostgreSQL refuses a longer
\* value (DataError) when it forms the row, before it looks at the unique indexes
ValueTooLong(row) == row.role = "A ROLE OF 51 CHARACTERS"

\* str(e) of a DBAPIError: the driver's message, then [SQL: the statement] and
\* [parameters: the bound values] (database.py creates the engine without
\* hide_parameters)
StatementErrorText(orig, statement, parameters) ==
    [orig |-> orig, statement |-> statement, parameters |-> parameters]

\* lines 144-155: except SQLAlchemyError
DatabaseError(e, error_type) ==
    [error |-> "Database error", backend_error |-> e, error_type |-> error_type]

IntegrityErrorKind_Unmatched(error_msg) == "Database constraint error"

\* lines 117-142: except IntegrityError, by the words of the driver's message
IntegrityErrorKind(error_msg) ==
    IF Contains(error_msg, "username") THEN "Username already exists"
    ELSE IF Contains(error_msg, "email") THEN "Email already exists"
    ELSE "Database constraint error"

\* lines 48-92 and 117-155: the new row, INSERT and commit, token, response
create_user_commit(w) ==
    /\ regs[w].pc = "commit"
    /\ \E salt \in Salts :
       LET user == regs[w].user
           row == new_user(user, salt)
           error_msg == UniqueViolation(row)
       IN IF ValueTooLong(row)
          THEN /\ resp' = Reply("register", user, 200,
                                DatabaseError(StatementErrorText("value too long",
                                                  "INSERT INTO users", row), "DataError"))
               /\ UNCHANGED <<users, plain, now>>
          ELSE IF error_msg # <<>>
          THEN /\ resp' = Reply("register", user, 200,
                                [error |-> IntegrityErrorKind(error_msg),
                                 backend_error |-> error_msg])
               /\ UNCHANGED <<users, plain, now>>
          ELSE \E t2 \in LaterReads(now) :
               /\ users' = Append(users, row)
               /\ plain' = Append(plain, user.password)
               /\ now' = t2
               /\ resp' = Reply("register", user, 200,
                                [message |-> "User created successfully",
                                 id |-> Len(users) + 1,
                                 username |-> row.username,
                                 email |-> row.email,
                                 role |-> IF row.role # None /\ row.role # ""
                                          THEN row.role ELSE "CUSTOMER",
                                 token |-> generate_token(Len(users) + 1, row.role, now, t2)])
    /\ regs' = [regs EXCEPT ![w] = Idle]
    /\ UNCHANGED <<issued, tasks, habits, notes, goals, seq>>

create_user_database_error_Raises(w) ==
    /\ regs[w].pc = "commit"
    /\ resp' = Reply("register", regs[w].user, 500, [detail |-> "Database error"])
    /\ regs' = [regs EXCEPT ![w] = Idle]
    /\ UNCHANGED <<users, plain, now, issued, tasks, habits, notes, goals, seq>>

\* lines 67-70 and 144-155: the connection to the database is lost under the
\* INSERT of db.commit() (no row is stored) or under the SELECT of db.refresh()
\* after the commit (the row is stored); except SQLAlchemyError answers
create_user_database_error(w) ==
    /\ regs[w].pc = "commit"
    /\ \E salt \in Salts, committed \in BOOLEAN :
       LET user == regs[w].user
           row == new_user(user, salt)
           e == IF committed
                THEN StatementErrorText("server closed the connection", "SELECT FROM users",
                                        [pk_1 |-> Len(users) + 1])
                ELSE StatementErrorText("server closed the connection", "INSERT INTO users", row)
       IN /\ committed => (~ValueTooLong(row) /\ UniqueViolation(row) = <<>>)
          /\ users' = IF committed THEN Append(users, row) ELSE users
          /\ plain' = IF committed THEN Append(plain, user.password) ELSE plain
          /\ resp' = Reply("register", user, 200, DatabaseError(e, "OperationalError"))
    /\ regs' = [regs EXCEPT ![w] = Idle]
    /\ UNCHANGED <<now, issued, tasks, habits, notes, goals, seq>>

(***************************************************************************)
(* controllers/users.py login                                              *)
(***************************************************************************)
FindUser_ByUsernameOrEmail(u) ==
    {i \in 1..Len(users) : users[i].username = u \/ users[i].email = u}

\* line 183: db.query(UserModel).filter(UserModel.username == user.username)
FindUser(u) == {i \in 1..Len(users) : users[i].username = u}

login_Rehash(u, pw) ==
    LET req == [username |-> u, password |-> pw]
        found == {i \in FindUser(u) : verify_password(pw, users[i].password_hash)}
    IN /\ IF found = {}
          THEN /\ resp' = Reply("login", req, 401, [detail |-> "Invalid username or password"])
               /\ UNCHANGED users
          ELSE \E i \in found, salt \in Salts :
               /\ users' = [users EXCEPT ![i].password_hash = set_password(pw, salt)]
               /\ resp' = Reply("login", req, 200,
                                [token |-> generate_token(i, users[i].role, now, now),
                                 message |-> "Login successful", role |-> users[i].role])
       /\ UNCHANGED <<plain, regs, now, issued, tasks, habits, notes, goals, seq>>

login(u, pw) ==
    LET req == [username |-> u, password |-> pw]
        found == FindUser(u)
    IN /\ IF found # {} /\ \E i \in found : verify_password_raises(users[i].password_hash)
          THEN /\ resp' = Reply("login", req, 500,            \* except Exception
                                [detail |-> <<"Login failed due to an internal error">>])
               /\ UNCHANGED now
          ELSE IF found = {} \/ \E i \in found : ~verify_password(pw, users[i].password_hash)
          THEN /\ resp' = Reply("login", req, 401, [detail |-> "Invalid username or password"])
               /\ UNCHANGED now
          ELSE \E i \in found, t2 \in LaterReads(now) :
               LET body == [token |-> generate_token(i, users[i].role, now, t2),
                            message |-> "Login successful",
                            role |-> IF users[i].role # None /\ users[i].role # ""
                                     THEN users[i].role ELSE "CUSTOMER"]
               IN /\ now' = t2
                  /\ resp' = IF UserToken(body)
                             THEN Reply("login", req, 200, body)
                             ELSE global_exception_handler("login", req,
                                                           ResponseValidationErrorText)
       /\ UNCHANGED <<users, plain, regs, issued, tasks, habits, notes, goals, seq>>

(***************************************************************************)
(* Registration and login under concurrent workers.                        *)
(***************************************************************************)
Empty == [i \in {} |-> 0]

InitUsers ==
    /\ users = <<>>
    /\ plain = <<>>
    /\ regs = [w \in Procs |-> Idle]
    /\ now = 0
    /\ issued = {}
    /\ tasks = Empty /\ habits = Empty /\ notes = Empty /\ goals = Empty
    /\ seq = [k \in {"task", "habit", "note", "goal"} |-> 0]
    /\ resp = NoResp

NextUsers ==
    \/ Deliver
    \/ Ready /\ \E w \in Procs, user \in RegisterRequests : create_user_check(w, user)
    \/ Ready /\ \E w \in Procs : create_user_commit(w)
    \/ Ready /\ \E u \in Usernames \cup Emails, pw \in Passwords : login(u, pw)

SpecUsers == InitUsers /\ [][NextUsers]_vars

(***************************************************************************)
(* Registration when the database may fail under a request, and with a     *)
(* role the column cannot hold.                                            *)
(***************************************************************************)
NextFaults ==
    \/ Deliver
    \/ Ready /\ \E w \in Procs, user \in RegisterRequests \cup {LongRoleRequest} :
          create_user_check(w, user)
    \/ Ready /\ \E w \in Procs : create_user_commit(w)
    \/ Ready /\ \E w \in Procs : create_user_database_error(w)

SpecFaults == InitUsers /\ [][NextFaults]_vars

(***************************************************************************)
(* Login against stored rows whose password_hash is well formed, NULL or   *)
(* no hash at all.                                                         *)
(***************************************************************************)
StoredHashes ==
    {set_password(pw, salt) : pw \in Passwords, salt \in Salts}
        \cup {AbsentHash, MalformedHash}

InitLogin ==
    /\ \E h1, h2 \in StoredHashes :
          users = << [username |-> "alice", email |-> "a@x.io", role |-> "CUSTOMER",
                      password_hash |-> h1],
                     [username |-> "bob", email |-> "username@x.io", role |-> "ADMIN",
                      password_hash |-> h2] >>
    /\ plain = <<"pw1", "pw2">>
    /\ regs = [w \in Procs |-> Idle]
    /\ now \in Instants
    /\ issued = {}
    /\ tasks = Empty /\ habits = Empty /\ notes = Empty /\ goals = Empty
    /\ seq = [k \in {"task", "habit", "note", "goal"} |-> 0]
    /\ resp = NoResp

NextLogin ==
    \/ Deliver
    \/ Ready /\ \E u \in Usernames \cup Emails, pw \in Passwords : login(u, pw)

SpecLogin == InitLogin /\ [][NextLogin]_vars

(***************************************************************************)
(* Values of the resource tables and of request bodies: a Python value v   *)
(* is {v} and None (SQL NULL) is {}, so that an Optional field holds both. *)
(***************************************************************************)
Null == {}
Val(v) == {v}

Restrict_KeepOwner(body, fields) ==
    [k \in DOMAIN body \cap (fields \cup {"user_id"}) |->
        IF k = "user_id" THEN CHOOSE v \in body[k] : TRUE ELSE body[k]]

Restrict_AllFields(body, fields) ==
    [k \in fields |-> IF k \in DOMAIN body THEN body[k] ELSE Null]

\* pydantic: keep the schema's fields the body supplies (extra keys are ignored;
\* .dict(exclude_unset=True) leaves out the fields the body does not supply)
Restrict(body, fields) == [k \in DOMAIN body \cap fields |-> body[k]]

\* a schema field the body does not supply has its default, None
Field(data, k) == IF k \in DOMAIN data THEN data[k] ELSE Null

\* for key, value in update_data.items(): setattr(row, key, value)
Apply(row, update_data) ==
    [k \in DOMAIN row |-> IF k \in DOMAIN update_data THEN update_data[k] ELSE row[k]]

\* column.ilike('%search%') on the texts the model uses; NULL matches nothing
ILikePairs == {<<"t1", "1">>, <<"d1", "1">>, <<"c1", "1">>}
ILike(text, search) == \E x \in text, y \in search : <<x, y>> \in ILikePairs

\* ORDER BY created_at DESC: the orders the database may return the rows ids in
NewestFirst(table, ids) ==
    {s \in [1..Cardinality(ids) -> ids] :
        /\ \A i, j \in DOMAIN s : i # j => s[i] # s[j]
        /\ \A i, j \in DOMAIN s : i < j => table[s[i]].created_at >= table[s[j]].created_at}

\* .limit(limit).offset(offset)
Page(s, limit, offset) ==
    SubSeq(s, offset + 1, IF offset + limit < Len(s) THEN offset + limit ELSE Len(s))

Remove_Soft(table, id) == table

Remove(table, id) == [i \in DOMAIN table \ {id} |-> table[i]]

TotalRows == seq.task + seq.habit + seq.note + seq.goal

(***************************************************************************)
(* dependencies/get_current_user.py: the bearer token's user, 0 when the   *)
(* token is not validly signed, is expired or names no user (401).         *)
(***************************************************************************)
get_current_user(token) ==
    IF /\ token.sig = "secret"
       /\ now < token.exp
       /\ \E i \in 1..Len(users) : ToString(i) = token.sub
    THEN CHOOSE i \in 1..Len(users) : ToString(i) = token.sub
    ELSE 0

Unauthenticated(op, req) == Reply(op, req, 401, [detail |-> "Could not validate credentials"])

\* raise HTTPException(status_code, detail); the detail of a 500 is the parts
\* of the f-string that makes it
HTTPException(op, req, status_code, detail) == Reply(op, req, status_code, [detail |-> detail])

\* the response_model of a route: a body the schema rejects is answered 500 by
\* main.py's global_exception_handler
Respond(op, req, status, body, valid) ==
    IF valid THEN Reply(op, req, status, body)
    ELSE global_exception_handler(op, req, ResponseValidationErrorText)

\* serializers/user.py UserResponseSchema
UserResponseSchema(id) ==
    [id |-> id, username |-> users[id].username, email |-> users[id].email,
     role |-> users[id].role]
ValidUserResponseSchema(user) == user.role = None \/ user.role \in UserRole

IsStr(v) == v # Null
IsBool(v) == v # Null

(***************************************************************************)
(* controllers/tasks.py                                                    *)
(***************************************************************************)
TaskCreateFields == {"title", "description", "due_date"}
TaskUpdateFields == {"title", "description", "due_date", "is_completed"}

\* serializers/task.py TaskSchema
TaskSchema(id, row) ==
    [id |-> id, title |-> row.title, description |-> row.description,
     due_date |-> row.due_date, is_completed |-> row.is_completed,
     created_at |-> row.created_at, user |-> UserResponseSchema(row.user_id)]
ValidTaskSchema(t) ==
    IsStr(t.title) /\ IsStr(t.description) /\ IsBool(t.is_completed)
    /\ ValidUserResponseSchema(t.user)

\* models/task.py: the NOT NULL columns
TaskNotNull(row) == row.title # Null /\ row.description # Null

new_task_TrustBody(body, user_id, created_at) ==
    [title |-> Field(body, "title"), description |-> Field(body, "description"),
     due_date |-> Field(body, "due_date"), user_id |-> user_id,
     is_completed |-> IF "is_completed" \in DOMAIN body THEN body.is_completed ELSE Val(FALSE),
     created_at |-> created_at]

\* lines 25-31: the new row, from the body as TaskCreate parsed it
new_task(body, user_id, created_at) ==
    LET task == Restrict(body, TaskCreateFields)
    IN [title |-> Field(task, "title"), description |-> Field(task, "description"),
        due_date |-> Field(task, "due_date"), user_id |-> user_id,
        is_completed |-> Val(FALSE), created_at |-> created_at]

create_task(token, body) ==
    LET current_user == get_current_user(token)
        req == [actor |-> current_user, body |-> body]
        id == seq.task + 1
        row == new_task(body, current_user, now)
    IN /\ current_user = 0 \/ TotalRows < MaxRows
       /\ IF current_user = 0
          THEN /\ resp' = Unauthenticated("create_task", req)
               /\ UNCHANGED <<tasks, seq>>
          ELSE /\ tasks' = (id :> row) @@ tasks
               /\ seq' = [seq EXCEPT !.task = id]
               /\ resp' = Respond("create_task", req, 201, TaskSchema(id, row),
                                  ValidTaskSchema(TaskSchema(id, row)))
       /\ UNCHANGED <<users, plain, regs, now, issued, habits, notes, goals>>

get_tasks(token, completed, search) ==
    LET current_user == get_current_user(token)
        req == [actor |-> current_user, completed |-> completed, search |-> search]
        ids == {i \in DOMAIN tasks :
                  /\ tasks[i].user_id = current_user
                  /\ completed # Null => tasks[i].is_completed = completed
                  /\ (search # Null /\ search # Val(""))
                        => (ILike(tasks[i].title, search) \/ ILike(tasks[i].description, search))}
    IN /\ IF current_user = 0
          THEN resp' = Unauthenticated("get_tasks", req)
          ELSE \E s \in NewestFirst(tasks, ids) :
                  resp' = Respond("get_tasks", req, 200,
                                  [i \in DOMAIN s |-> TaskSchema(s[i], tasks[s[i]])],
                                  \A i \in ids : ValidTaskSchema(TaskSchema(i, tasks[i])))
       /\ UNCHANGED <<users, plain, regs, now, issued, tasks, habits, notes, goals, seq>>

get_single_task(token, task_id) ==
    LET current_user == get_current_user(token)
        req == [actor |-> current_user, id |-> task_id]
    IN /\ resp' =
            IF current_user = 0 THEN Unauthenticated("get_single_task", req)
            ELSE IF task_id \notin DOMAIN tasks
            THEN HTTPException("get_single_task", req, 404, "Task not found")
            ELSE IF tasks[task_id].user_id # current_user /\ users[current_user].role # "ADMIN"
            THEN HTTPException("get_single_task", req, 403, "You can only view your own tasks")
            ELSE Respond("get_single_task", req, 200, TaskSchema(task_id, tasks[task_id]),
                         ValidTaskSchema(TaskSchema(task_id, tasks[task_id])))
       /\ UNCHANGED <<users, plain, regs, now, issued, tasks, habits, notes, goals, seq>>

update_task(token, task_id, body) ==
    LET current_user == get_current_user(token)
        req == [actor |-> current_user, id |-> task_id, body |-> body]
    IN /\ IF current_user = 0
          THEN resp' = Unauthenticated("update_task", req) /\ UNCHANGED tasks
          ELSE IF task_id \notin DOMAIN tasks
          THEN /\ resp' = HTTPException("update_task", req, 404, "Task not found")
               /\ UNCHANGED tasks
          ELSE IF tasks[task_id].user_id # current_user /\ users[current_user].role # "ADMIN"
          THEN /\ resp' = HTTPException("update_task", req, 403,
                                        "You can only update your own tasks")
               /\ UNCHANGED tasks
          ELSE LET update_data == Restrict(body, TaskUpdateFields)
                   db_task == Apply(tasks[task_id], update_data)
               IN IF ~TaskNotNull(db_task)
                  THEN /\ resp' = HTTPException("update_task", req, 500,
                                                <<"Failed to update task: ", NotNullViolationText>>)
                       /\ UNCHANGED tasks                       \* db.rollback()
                  ELSE /\ tasks' = [tasks EXCEPT ![task_id] = db_task]
                       /\ resp' = Respond("update_task", req, 200, TaskSchema(task_id, db_task),
                                          ValidTaskSchema(TaskSchema(task_id, db_task)))
       /\ UNCHANGED <<users, plain, regs, now, issued, habits, notes, goals, seq>>

delete_task(token, task_id) ==
    LET current_user == get_current_user(token)
        req == [actor |-> current_user, id |-> task_id]
    IN /\ IF current_user = 0
          THEN resp' = Unauthenticated("delete_task", req) /\ UNCHANGED tasks
          ELSE IF task_id \notin DOMAIN tasks
          THEN /\ resp' = HTTPException("delete_task", req, 404, "Task not found")
               /\ UNCHANGED tasks
          ELSE IF tasks[task_id].user_id # current_user /\ users[current_user].role # "ADMIN"
          THEN /\ resp' = HTTPException("delete_task", req, 403,
                                        "You can only delete your own tasks")
               /\ UNCHANGED tasks
          ELSE /\ tasks' = Remove(tasks, task_id)
               /\ resp' = Reply("delete_task", req, 200,
                                [message |-> "Task has been permanently deleted"])
       /\ UNCHANGED <<users, plain, regs, now, issued, habits, notes, goals, seq>>

get_all_tasks_admin(token) ==
    LET current_user == get_current_user(token)
        req == [actor |-> current_user]
    IN /\ IF current_user = 0
          THEN resp' = Unauthenticated("get_all_tasks_admin", req)
          ELSE IF users[current_user].role # "ADMIN"
          THEN resp' = HTTPException("get_all_tasks_admin", req, 403,
                                     "Only admin users can view all tasks")
          ELSE \E s \in NewestFirst(tasks, DOMAIN tasks) :
                  resp' = Respond("get_all_tasks_admin", req, 200,
                                  [i \in DOMAIN s |-> TaskSchema(s[i], tasks[s[i]])],
                                  \A i \in DOMAIN tasks : ValidTaskSchema(TaskSchema(i, tasks[i])))
       /\ UNCHANGED <<users, plain, regs, now, issued, tasks, habits, notes, goals, seq>>

(***************************************************************************)
(* controllers/habits.py                                                   *)
(***************************************************************************)
HabitCreateFields == {"title", "description"}
HabitUpdateFields == {"title", "description", "is_completed"}

\* serializers/habit.py HabitSchema and HabitWithDetails
HabitSchema(id, row) ==
    [id |-> id, user_id |-> row.user_id, title |-> row.title,
     description |-> row.description, completed_at |-> row.completed_at,
     is_completed |-> row.is_completed, created_at |-> row.created_at,
     user |-> UserResponseSchema(row.user_id)]
ValidHabitSchema(h) ==
    IsStr(h.title) /\ IsBool(h.is_completed) /\ ValidUserResponseSchema(h.user)

\* models/habit.py: the NOT NULL columns
HabitNotNull(row) == row.title # Null

\* lines 24-30: the new row, from the body as HabitCreate parsed it
new_habit(body, user_id, created_at) ==
    LET habit == Restrict(body, HabitCreateFields)
    IN [user_id |-> user_id, title |-> Field(habit, "title"),
        description |-> Field(habit, "description"),
        is_completed |-> Val(FALSE), completed_at |-> Null, created_at |-> created_at]

habit_update_data_NoClear(body, t) ==
    LET update_data == Restrict(body, HabitUpdateFields)
    IN IF "is_completed" \in DOMAIN update_data /\ update_data.is_completed = Val(TRUE)
       THEN ("completed_at" :> Val(t)) @@ update_data
       ELSE update_data

habit_update_data_TrustBody(body, t) ==
    LET update_data == Restrict(body, HabitUpdateFields \cup {"completed_at"})
    IN IF "completed_at" \in DOMAIN update_data THEN update_data
       ELSE IF "is_completed" \in DOMAIN update_data /\ update_data.is_completed = Val(TRUE)
       THEN ("completed_at" :> Val(t)) @@ update_data
       ELSE IF "is_completed" \in DOMAIN update_data
       THEN ("completed_at" :> Null) @@ update_data
       ELSE update_data

\* lines 163-169: update_data with completed_at following is_completed
habit_update_data(body, t) ==
    LET update_data == Restrict(body, HabitUpdateFields)
    IN IF "is_completed" \in DOMAIN update_data /\ update_data.is_completed = Val(TRUE)
       THEN ("completed_at" :> Val(t)) @@ update_data
       ELSE IF "is_completed" \in DOMAIN update_data
       THEN ("completed_at" :> Null) @@ update_data
       ELSE update_data

create_habit(token, body) ==
    LET current_user == get_current_user(token)
        req == [actor |-> current_user, body |-> body]
        id == seq.habit + 1
        row == new_habit(body, current_user, now)
    IN /\ current_user = 0 \/ TotalRows < MaxRows
       /\ IF current_user = 0
          THEN /\ resp' = Unauthenticated("create_habit", req)
               /\ UNCHANGED <<habits, seq>>
          ELSE /\ habits' = (id :> row) @@ habits
               /\ seq' = [seq EXCEPT !.habit = id]
               /\ resp' = Respond("create_habit", req, 201, HabitSchema(id, row),
                                  ValidHabitSchema(HabitSchema(id, row)))
       /\ UNCHANGED <<users, plain, regs, now, issued, tasks, notes, goals>>

get_my_habits(token, completed) ==
    LET current_user == get_current_user(token)
        req == [actor |-> current_user, completed |-> completed]
        ids == {i \in DOMAIN habits :
                  /\ habits[i].user_id = current_user
                  /\ completed # Null => habits[i].is_completed = completed}
    IN /\ IF current_user = 0
          THEN resp' = Unauthenticated("get_my_habits", req)
          ELSE \E s \in NewestFirst(habits, ids) :
                  resp' = Respond("get_my_habits", req, 200,
                                  [i \in DOMAIN s |-> HabitSchema(s[i], habits[s[i]])],
                                  \A i \in ids : ValidHabitSchema(HabitSchema(i, habits[i])))
       /\ UNCHANGED <<users, plain, regs, now, issued, tasks, habits, notes, goals, seq>>

get_all_habits_admin(token, user_id, completed) ==
    LET current_user == get_current_user(token)
        req == [actor |-> current_user, user_id |-> user_id, completed |-> completed]
        ids == {i \in DOMAIN habits :
                  /\ (user_id # Null /\ user_id # Val(0)) => Val(habits[i].user_id) = user_id
                  /\ completed # Null => habits[i].is_completed = completed}
    IN /\ IF current_user = 0
          THEN resp' = Unauthenticated("get_all_habits_admin", req)
          ELSE IF users[current_user].role # "ADMIN"
          THEN resp' = HTTPException("get_all_habits_admin", req, 403,
                                     "Only admin users can view all habits")
          ELSE \E s \in NewestFirst(habits, ids) :
                  resp' = Respond("get_all_habits_admin", req, 200,
                                  [i \in DOMAIN s |-> HabitSchema(s[i], habits[s[i]])],
                                  \A i \in ids : ValidHabitSchema(HabitSchema(i, habits[i])))
       /\ UNCHANGED <<users, plain, regs, now, issued, tasks, habits, notes, goals, seq>>

get_habit(token, habit_id) ==
    LET current_user == get_current_user(token)
        req == [actor |-> current_user, id |-> habit_id]
    IN /\ resp' =
            IF current_user = 0 THEN Unauthenticated("get_habit", req)
            ELSE IF habit_id \notin DOMAIN habits
            THEN HTTPException("get_habit", req, 404, "Habit not found")
            ELSE IF users[current_user].role # "ADMIN" /\ habits[habit_id].user_id # current_user
            THEN HTTPException("get_habit", req, 403, "You can only view your own habits")
            ELSE Respond("get_habit", req, 200, HabitSchema(habit_id, habits[habit_id]),
                         ValidHabitSchema(HabitSchema(habit_id, habits[habit_id])))
       /\ UNCHANGED <<users, plain, regs, now, issued, tasks, habits, notes, goals, seq>>

update_habit(token, habit_id, body) ==
    LET current_user == get_current_user(token)
        req == [actor |-> current_user, id |-> habit_id, body |-> body]
    IN /\ IF current_user = 0
          THEN resp' = Unauthenticated("update_habit", req) /\ UNCHANGED habits
          ELSE IF habit_id \notin DOMAIN habits
          THEN /\ resp' = HTTPException("update_habit", req, 404, "Habit not found")
               /\ UNCHANGED habits
          ELSE IF users[current_user].role # "ADMIN" /\ habits[habit_id].user_id # current_user
          THEN /\ resp' = HTTPException("update_habit", req, 403, "You can only update your own habits")
               /\ UNCHANGED habits
          ELSE LET update_data == habit_update_data(body, now)
                   habit == Apply(habits[habit_id], update_data)
               IN IF ~HabitNotNull(habit)
                  THEN /\ resp' = HTTPException("update_habit", req, 500,
                                                <<"Failed to update habit: ", NotNullViolationText>>)
                       /\ UNCHANGED habits                       \* db.rollback()
                  ELSE /\ habits' = [habits EXCEPT ![habit_id] = habit]
                       /\ resp' = Respond("update_habit", req, 200, HabitSchema(habit_id, habit),
                                          ValidHabitSchema(HabitSchema(habit_id, habit)))
       /\ UNCHANGED <<users, plain, regs, now, issued, tasks, notes, goals, seq>>

delete_habit(token, habit_id) ==
    LET current_user == get_current_user(token)
        req == [actor |-> current_user, id |-> habit_id]
    IN /\ IF current_user = 0
          THEN resp' = Unauthenticated("delete_habit", req) /\ UNCHANGED habits
          ELSE IF habit_id \notin DOMAIN habits
          THEN /\ resp' = HTTPException("delete_habit", req, 404, "Habit not found")
               /\ UNCHANGED habits
          ELSE IF users[current_user].role # "ADMIN" /\ habits[habit_id].user_id # current_user
          THEN /\ resp' = HTTPException("delete_habit", req, 403, "You can only delete your own habits")
               /\ UNCHANGED habits
          ELSE /\ habits' = Remove(habits, habit_id)
               /\ resp' = Reply("delete_habit", req, 200, [message |-> "Habit has been deleted successfully"])
       /\ UNCHANGED <<users, plain, regs, now, issued, tasks, notes, goals, seq>>

get_habit_stats(token) ==
    LET current_user == get_current_user(token)
        req == [actor |-> current_user]
        total_habits == Cardinality({i \in DOMAIN habits : habits[i].user_id = current_user})
        completed_habits == Cardinality({i \in DOMAIN habits :
                                            /\ habits[i].user_id = current_user
                                            /\ habits[i].is_completed = Val(TRUE)})
    IN /\ resp' = IF current_user = 0 THEN Unauthenticated("get_habit_stats", req)
                  ELSE Reply("get_habit_stats", req, 200,
                             [total_habits |-> total_habits,
                              completed_habits |-> completed_habits,
                              incomplete_habits |-> total_habits - completed_habits])
       /\ UNCHANGED <<users, plain, regs, now, issued, tasks, habits, notes, goals, seq>>

(***************************************************************************)
(* controllers/notes.py                                                    *)
(***************************************************************************)
NoteCreateFields == {"title", "content"}
NoteUpdateFields == {"title", "content"}

\* serializers/note.py NoteSchema
NoteSchema(id, row) ==
    [id |-> id, user_id |-> row.user_id, title |-> row.title, content |-> row.content,
     created_at |-> row.created_at, user |-> UserResponseSchema(row.user_id)]
ValidNoteSchema(n) == IsStr(n.title) /\ ValidUserResponseSchema(n.user)

\* models/note.py: the NOT NULL columns
NoteNotNull(row) == row.title # Null

\* lines 23-27: the new row, from the body as NoteCreate parsed it
new_note(body, user_id, created_at) ==
    LET note == Restrict(body, NoteCreateFields)
    IN [user_id |-> user_id, title |-> Field(note, "title"),
        content |-> Field(note, "content"), created_at |-> created_at]

create_note(token, body) ==
    LET current_user == get_current_user(token)
        req == [actor |-> current_user, body |-> body]
        id == seq.note + 1
        row == new_note(body, current_user, now)
    IN /\ current_user = 0 \/ TotalRows < MaxRows
       /\ IF current_user = 0
          THEN /\ resp' = Unauthenticated("create_note", req)
               /\ UNCHANGED <<notes, seq>>
          ELSE /\ notes' = (id :> row) @@ notes
               /\ seq' = [seq EXCEPT !.note = id]
               /\ resp' = Respond("create_note", req, 201, NoteSchema(id, row),
                                  ValidNoteSchema(NoteSchema(id, row)))
       /\ UNCHANGED <<users, plain, regs, now, issued, tasks, habits, goals>>

get_user_notes(token, search) ==
    LET current_user == get_current_user(token)
        req == [actor |-> current_user, search |-> search]
        ids == {i \in DOMAIN notes :
                  /\ notes[i].user_id = current_user
                  /\ (search # Null /\ search # Val(""))
                        => (ILike(notes[i].title, search) \/ ILike(notes[i].content, search))}
    IN /\ IF current_user = 0
          THEN resp' = Unauthenticated("get_user_notes", req)
          ELSE \E s \in NewestFirst(notes, ids) :
                  resp' = Respond("get_user_notes", req, 200,
                                  [i \in DOMAIN s |-> NoteSchema(s[i], notes[s[i]])],
                                  \A i \in ids : ValidNoteSchema(NoteSchema(i, notes[i])))
       /\ UNCHANGED <<users, plain, regs, now, issued, tasks, habits, notes, goals, seq>>

get_note_PermissionFirst(token, note_id) ==
    LET current_user == get_current_user(token)
        req == [actor |-> current_user, id |-> note_id]
    IN /\ resp' =
            IF current_user = 0 THEN Unauthenticated("get_note", req)
            ELSE IF /\ users[current_user].role # "ADMIN"
                    /\ (note_id \notin DOMAIN notes \/ notes[note_id].user_id # current_user)
            THEN HTTPException("get_note", req, 403, "You can only view your own notes")
            ELSE IF note_id \notin DOMAIN notes
            THEN HTTPException("get_note", req, 404, "Note not found")
            ELSE Respond("get_note", req, 200, NoteSchema(note_id, notes[note_id]),
                         ValidNoteSchema(NoteSchema(note_id, notes[note_id])))
       /\ UNCHANGED <<users, plain, regs, now, issued, tasks, habits, notes, goals, seq>>

get_note(token, note_id) ==
    LET current_user == get_current_user(token)
        req == [actor |-> current_user, id |-> note_id]
    IN /\ resp' =
            IF current_user = 0 THEN Unauthenticated("get_note", req)
            ELSE IF note_id \notin DOMAIN notes
            THEN HTTPException("get_note", req, 404, "Note not found")
            ELSE IF notes[note_id].user_id # current_user /\ users[current_user].role # "ADMIN"
            THEN HTTPException("get_note", req, 403, "You can only view your own notes")
            ELSE Respond("get_note", req, 200, NoteSchema(note_id, notes[note_id]),
                         ValidNoteSchema(NoteSchema(note_id, notes[note_id])))
       /\ UNCHANGED <<users, plain, regs, now, issued, tasks, habits, notes, goals, seq>>

update_note(token, note_id, body) ==
    LET current_user == get_current_user(token)
        req == [actor |-> current_user, id |-> note_id, body |-> body]
    IN /\ IF current_user = 0
          THEN resp' = Unauthenticated("update_note", req) /\ UNCHANGED notes
          ELSE IF note_id \notin DOMAIN notes
          THEN /\ resp' = HTTPException("update_note", req, 404, "Note not found")
               /\ UNCHANGED notes
          ELSE IF notes[note_id].user_id # current_user /\ users[current_user].role # "ADMIN"
          THEN /\ resp' = HTTPException("update_note", req, 403, "You can only update your own notes")
               /\ UNCHANGED notes
          ELSE LET update_data == Restrict(body, NoteUpdateFields)
                   note == Apply(notes[note_id], update_data)
               IN IF ~NoteNotNull(note)
                  THEN /\ resp' = HTTPException("update_note", req, 500,
                                                <<"Failed to update note: ", NotNullViolationText>>)
                       /\ UNCHANGED notes                       \* db.rollback()
                  ELSE /\ notes' = [notes EXCEPT ![note_id] = note]
                       /\ resp' = Respond("update_note", req, 200, NoteSchema(note_id, note),
                                          ValidNoteSchema(NoteSchema(note_id, note)))
       /\ UNCHANGED <<users, plain, regs, now, issued, tasks, habits, goals, seq>>

delete_note(token, note_id) ==
    LET current_user == get_current_user(token)
        req == [actor |-> current_user, id |-> note_id]
    IN /\ IF current_user = 0
          THEN resp' = Unauthenticated("delete_note", req) /\ UNCHANGED notes
          ELSE IF note_id \notin DOMAIN notes
          THEN /\ resp' = HTTPException("delete_note", req, 404, "Note not found")
               /\ UNCHANGED notes
          ELSE IF notes[note_id].user_id # current_user /\ users[current_user].role # "ADMIN"
          THEN /\ resp' = HTTPException("delete_note", req, 403, "You can only delete your own notes")
               /\ UNCHANGED notes
          ELSE /\ notes' = Remove(notes, note_id)
               /\ resp' = Reply("delete_note", req, 200, [message |-> "Note has been deleted successfully"])
       /\ UNCHANGED <<users, plain, regs, now, issued, tasks, habits, goals, seq>>

(***************************************************************************)
(* controllers/daily_goals.py                                              *)
(***************************************************************************)
DailyGoalCreateFields == {"title", "description", "goal_date"}
DailyGoalUpdateFields == {"title", "description", "goal_date", "is_completed"}

\* serializers/daily_goal.py DailyGoalSchema
DailyGoalSchema(id, row) ==
    [id |-> id, title |-> row.title, description |-> row.description,
     goal_date |-> row.goal_date, is_completed |-> row.is_completed,
     created_at |-> row.created_at, user |-> UserResponseSchema(row.user_id)]
ValidDailyGoalSchema(g) ==
    IsStr(g.title) /\ IsStr(g.description) /\ g.goal_date # Null /\ IsBool(g.is_completed)
    /\ ValidUserResponseSchema(g.user)

\* models/daily_goal.py: the NOT NULL columns
DailyGoalNotNull(row) == row.title # Null /\ row.goal_date # Null

\* lines 113-119: the new row, from the body as DailyGoalCreate parsed it
new_goal(body, user_id, created_at) ==
    LET goal == Restrict(body, DailyGoalCreateFields)
    IN [title |-> Field(goal, "title"), description |-> Field(goal, "description"),
        goal_date |-> Field(goal, "goal_date"), is_completed |-> Val(FALSE),
        user_id |-> user_id, created_at |-> created_at]

get_daily_goals(token, goal_date, completed, search, limit, offset) ==
    LET current_user == get_current_user(token)
        req == [actor |-> current_user, goal_date |-> goal_date, completed |-> completed,
                search |-> search, limit |-> limit, offset |-> offset]
        ids == {i \in DOMAIN goals :
                  /\ goals[i].user_id = current_user
                  /\ goal_date # Null => goals[i].goal_date = goal_date
                  /\ completed # Null => goals[i].is_completed = completed
                  /\ (search # Null /\ search # Val(""))
                        => (ILike(goals[i].title, search) \/ ILike(goals[i].description, search))}
    IN /\ IF current_user = 0
          THEN resp' = Unauthenticated("get_daily_goals", req)
          ELSE \E s \in NewestFirst(goals, ids) :
                  LET page == Page(s, limit, offset)
                  IN resp' = Respond("get_daily_goals", req, 200,
                                     [i \in DOMAIN page |-> DailyGoalSchema(page[i], goals[page[i]])],
                                     \A i \in DOMAIN page :
                                        ValidDailyGoalSchema(DailyGoalSchema(page[i], goals[page[i]])))
       /\ UNCHANGED <<users, plain, regs, now, issued, tasks, habits, notes, goals, seq>>

get_daily_goal(token, goal_id) ==
    LET current_user == get_current_user(token)
        req == [actor |-> current_user, id |-> goal_id]
    IN /\ resp' =
            IF current_user = 0 THEN Unauthenticated("get_daily_goal", req)
            ELSE IF goal_id \notin DOMAIN goals
            THEN HTTPException("get_daily_goal", req, 404, "Daily goal not found")
            ELSE IF goals[goal_id].user_id # current_user /\ users[current_user].role # "ADMIN"
            THEN HTTPException("get_daily_goal", req, 403, "You can only view your own daily goals")
            ELSE Respond("get_daily_goal", req, 200, DailyGoalSchema(goal_id, goals[goal_id]),
                         ValidDailyGoalSchema(DailyGoalSchema(goal_id, goals[goal_id])))
       /\ UNCHANGED <<users, plain, regs, now, issued, tasks, habits, notes, goals, seq>>

create_daily_goal(token, body) ==
    LET current_user == get_current_user(token)
        req == [actor |-> current_user, body |-> body]
        id == seq.goal + 1
        row == new_goal(body, current_user, now)
    IN /\ current_user = 0 \/ TotalRows < MaxRows
       /\ IF current_user = 0
          THEN /\ resp' = Unauthenticated("create_daily_goal", req)
               /\ UNCHANGED <<goals, seq>>
          ELSE /\ goals' = (id :> row) @@ goals
               /\ seq' = [seq EXCEPT !.goal = id]
               /\ resp' = Respond("create_daily_goal", req, 201, DailyGoalSchema(id, row),
                                  ValidDailyGoalSchema(DailyGoalSchema(id, row)))
       /\ UNCHANGED <<users, plain, regs, now, issued, tasks, habits, notes>>

update_daily_goal(token, goal_id, body) ==
    LET current_user == get_current_user(token)
        req == [actor |-> current_user, id |-> goal_id, body |-> body]
    IN /\ IF current_user = 0
          THEN resp' = Unauthenticated("update_daily_goal", req) /\ UNCHANGED goals
          ELSE IF goal_id \notin DOMAIN goals
          THEN /\ resp' = HTTPException("update_daily_goal", req, 404, "Daily goal not found")
               /\ UNCHANGED goals
          ELSE IF goals[goal_id].user_id # current_user /\ users[current_user].role # "ADMIN"
          THEN /\ resp' = HTTPException("update_daily_goal", req, 403, "Not authorized to update this daily goal")
               /\ UNCHANGED goals
          ELSE LET update_data == Restrict(body, DailyGoalUpdateFields)
                   db_goal == Apply(goals[goal_id], update_data)
               IN IF ~DailyGoalNotNull(db_goal)
                  THEN /\ resp' = HTTPException("update_daily_goal", req, 500,
                                                <<"Failed to update daily goal: ", NotNullViolationText>>)
                       /\ UNCHANGED goals                       \* db.rollback()
                  ELSE /\ goals' = [goals EXCEPT ![goal_id] = db_goal]
                       /\ resp' = Respond("update_daily_goal", req, 200, DailyGoalSchema(goal_id, db_goal),
                                          ValidDailyGoalSchema(DailyGoalSchema(goal_id, db_goal)))
       /\ UNCHANGED <<users, plain, regs, now, issued, tasks, habits, notes, seq>>

\* a delete that takes the owner's other daily goals with the addressed one
delete_daily_goal_Cascade(token, goal_id) ==
    LET current_user == get_current_user(token)
        req == [actor |-> current_user, id |-> goal_id]
    IN /\ IF current_user = 0
          THEN resp' = Unauthenticated("delete_daily_goal", req) /\ UNCHANGED goals
          ELSE IF goal_id \notin DOMAIN goals
          THEN /\ resp' = HTTPException("delete_daily_goal", req, 404, "Daily goal not found")
               /\ UNCHANGED goals
          ELSE IF goals[goal_id].user_id # current_user /\ users[current_user].role # "ADMIN"
          THEN /\ resp' = HTTPException("delete_daily_goal", req, 403, "Not authorized to delete this daily goal")
               /\ UNCHANGED goals
          ELSE /\ goals' = [i \in {j \in DOMAIN goals : goals[j].user_id # goals[goal_id].user_id}
                               |-> goals[i]]
               /\ resp' = Reply("delete_daily_goal", req, 200, [message |-> "Daily goal has been permanently deleted"])
       /\ UNCHANGED <<users, plain, regs, now, issued, tasks, habits, notes, seq>>

delete_daily_goal(token, goal_id) ==
    LET current_user == get_current_user(token)
        req == [actor |-> current_user, id |-> goal_id]
    IN /\ IF current_user = 0
          THEN resp' = Unauthenticated("delete_daily_goal", req) /\ UNCHANGED goals
          ELSE IF goal_id \notin DOMAIN goals
          THEN /\ resp' = HTTPException("delete_daily_goal", req, 404, "Daily goal not found")
               /\ UNCHANGED goals
          ELSE IF goals[goal_id].user_id # current_user /\ users[current_user].role # "ADMIN"
          THEN /\ resp' = HTTPException("delete_daily_goal", req, 403, "Not authorized to delete this daily goal")
               /\ UNCHANGED goals
          ELSE /\ goals' = Remove(goals, goal_id)
               /\ resp' = Reply("delete_daily_goal", req, 200, [message |-> "Daily goal has been permanently deleted"])
       /\ UNCHANGED <<users, plain, regs, now, issued, tasks, habits, notes, seq>>

get_user_daily_goals(token, user_id, limit, offset) ==
    LET current_user == get_current_user(token)
        req == [actor |-> current_user, user_id |-> user_id, limit |-> limit, offset |-> offset]
        ids == {i \in DOMAIN goals : goals[i].user_id = user_id}
    IN /\ IF current_user = 0
          THEN resp' = Unauthenticated("get_user_daily_goals", req)
          ELSE IF current_user # user_id /\ users[current_user].role # "ADMIN"
          THEN resp' = HTTPException("get_user_daily_goals", req, 403,
                                     "Not authorized to view these daily goals")
          ELSE \E s \in NewestFirst(goals, ids) :
                  LET page == Page(s, limit, offset)
                  IN resp' = Respond("get_user_daily_goals", req, 200,
                                     [i \in DOMAIN page |-> DailyGoalSchema(page[i], goals[page[i]])],
                                     \A i \in DOMAIN page :
                                        ValidDailyGoalSchema(DailyGoalSchema(page[i], goals[page[i]])))
       /\ UNCHANGED <<users, plain, regs, now, issued, tasks, habits, notes, goals, seq>>

get_all_daily_goals_admin(token, show_completed, limit, offset) ==
    LET current_user == get_current_user(token)
        req == [actor |-> current_user, show_completed |-> show_completed,
                limit |-> limit, offset |-> offset]
        ids == {i \in DOMAIN goals : ~show_completed => goals[i].is_completed = Val(FALSE)}
    IN /\ IF current_user = 0
          THEN resp' = Unauthenticated("get_all_daily_goals_admin", req)
          ELSE IF users[current_user].role # "ADMIN"
          THEN resp' = HTTPException("get_all_daily_goals_admin", req, 403,
                                     "Admin access required")
          ELSE \E s \in NewestFirst(goals, ids) :
                  LET page == Page(s, limit, offset)
                  IN resp' = Respond("get_all_daily_goals_admin", req, 200,
                                     [i \in DOMAIN page |-> DailyGoalSchema(page[i], goals[page[i]])],
                                     \A i \in DOMAIN page :
                                        ValidDailyGoalSchema(DailyGoalSchema(page[i], goals[page[i]])))
       /\ UNCHANGED <<users, plain, regs, now, issued, tasks, habits, notes, goals, seq>>

(***************************************************************************)
(* main.py: the routes of the app itself.  Neither depends on              *)
(* get_current_user; the request's token is not looked at.                 *)
(***************************************************************************)
root(token) ==
    /\ resp' = Reply("root", [token |-> token], 200,
                     [message |-> "Backend is running. Visit /docs for API documentation."])
    /\ UNCHANGED <<users, plain, regs, now, issued, tasks, habits, notes, goals, seq>>

\* SELECT 1 on a fresh connection; an exception is reported in the body
health_check(token) ==
    /\ \E connected \in BOOLEAN :
          resp' = Reply("health_check", [token |-> token], 200,
                        IF connected THEN [status |-> "healthy", database |-> "connected"]
                        ELSE [status |-> "unhealthy", error |-> "OperationalError"])
    /\ UNCHANGED <<users, plain, regs, now, issued, tasks, habits, notes, goals, seq>>

(***************************************************************************)
(* The resource endpoints, called by three registered users: a customer,   *)
(* a user registered with role "manager", and an admin.  Each holds the    *)
(* token of a login at time 0; a fourth caller presents a forged token.    *)
(***************************************************************************)
SeedUsers ==
    << new_user([username |-> "alice", email |-> "a@x.io", password |-> "pw1",
                 role |-> "CUSTOMER"], "s1"),
       new_user([username |-> "bob", email |-> "username@x.io", password |-> "pw1",
                 role |-> "manager"], "s2"),
       new_user([username |-> "root", email |-> "r@x.io", password |-> "pw2",
                 role |-> "admin"], "s1") >>

ForgedToken == [sub |-> "3", role |-> "ADMIN", exp |-> DaySeconds, iat |-> 0, sig |-> "forged"]

InitResources ==
    /\ users = SeedUsers
    /\ plain = <<"pw1", "pw1", "pw2">>
    /\ regs = [w \in Procs |-> Idle]
    /\ now = 0
    /\ issued = {generate_token(i, SeedUsers[i].role, 0, 0) : i \in 1..3}
    /\ tasks = Empty /\ habits = Empty /\ notes = Empty /\ goals = Empty
    /\ seq = [k \in {"task", "habit", "note", "goal"} |-> 0]
    /\ resp = NoResp

Tokens == issued \cup {ForgedToken}
Ids == 1..MaxRows
Bools == {Null, Val(TRUE), Val(FALSE)}
Searches == {Null, Val("1")}
Limits == {1, 20}
Offsets == {0, 1}

\* request bodies: the second of each carries keys the schema does not have
TaskBodies ==
    { [title |-> Val("t1"), description |-> Val("d1")],
      [title |-> Val("t2"), description |-> Val("d1"), is_completed |-> Val(TRUE),
       user_id |-> Val(3)] }
HabitBodies ==
    { [title |-> Val("t1")],
      [title |-> Val("t2"), description |-> Val("d1"), is_completed |-> Val(TRUE),
       completed_at |-> Val(7), user_id |-> Val(3)] }
NoteBodies ==
    { [title |-> Val("t1"), content |-> Val("c1")],
      [title |-> Val("t2"), user_id |-> Val(3)] }
GoalBodies ==
    { [title |-> Val("t1"), description |-> Val("d1"), goal_date |-> Val("2024-01-15")],
      [title |-> Val("t2"), description |-> Val("d1"), goal_date |-> Val("2024-01-16"),
       is_completed |-> Val(TRUE), user_id |-> Val(3)] }
Updates == { [is_completed |-> Val(TRUE)], [title |-> Val("t2"), user_id |-> Val(3)] }
NoteUpdates == { [content |-> Val("c1")], [title |-> Val("t2"), user_id |-> Val(3)] }

NextResources ==
    \/ Deliver
    \/ Ready /\ \E t \in Tokens, b \in TaskBodies : create_task(t, b)
    \/ Ready /\ \E t \in Tokens, c \in Bools, x \in Searches : get_tasks(t, c, x)
    \/ Ready /\ \E t \in Tokens, i \in Ids : get_single_task(t, i)
    \/ Ready /\ \E t \in Tokens, i \in Ids, b \in Updates : update_task(t, i, b)
    \/ Ready /\ \E t \in Tokens, i \in Ids : delete_task(t, i)
    \/ Ready /\ \E t \in Tokens : get_all_tasks_admin(t)
    \/ Ready /\ \E t \in Tokens, b \in HabitBodies : create_habit(t, b)
    \/ Ready /\ \E t \in Tokens, c \in Bools : get_my_habits(t, c)
    \/ Ready /\ \E t \in Tokens, u \in {Null, Val(1)}, c \in Bools : get_all_habits_admin(t, u, c)
    \/ Ready /\ \E t \in Tokens, i \in Ids : get_habit(t, i)
    \/ Ready /\ \E t \in Tokens, i \in Ids, b \in Updates : update_habit(t, i, b)
    \/ Ready /\ \E t \in Tokens, i \in Ids : delete_habit(t, i)
    \/ Ready /\ \E t \in Tokens : get_habit_stats(t)
    \/ Ready /\ \E t \in Tokens, b \in NoteBodies : create_note(t, b)
    \/ Ready /\ \E t \in Tokens, x \in Searches : get_user_notes(t, x)
    \/ Ready /\ \E t \in Tokens, i \in Ids : get_note(t, i)
    \/ Ready /\ \E t \in Tokens, i \in Ids, b \in NoteUpdates : update_note(t, i, b)
    \/ Ready /\ \E t \in Tokens, i \in Ids : delete_note(t, i)
    \/ Ready /\ \E t \in Tokens, b \in GoalBodies : create_daily_goal(t, b)
    \/ Ready /\ \E t \in Tokens, d \in {Null, Val("2024-01-15")}, c \in Bools, x \in Searches,
          l \in Limits, o \in Offsets : get_daily_goals(t, d, c, x, l, o)
    \/ Ready /\ \E t \in Tokens, i \in Ids : get_daily_goal(t, i)
    \/ Ready /\ \E t \in Tokens, i \in Ids, b \in Updates : update_daily_goal(t, i, b)
    \/ Ready /\ \E t \in Tokens, i \in Ids : delete_daily_goal(t, i)
    \/ Ready /\ \E t \in Tokens, u \in 1..Len(users), l \in Limits, o \in Offsets :
          get_user_daily_goals(t, u, l, o)
    \/ Ready /\ \E t \in Tokens, c \in BOOLEAN, l \in Limits, o \in Offsets :
          get_all_daily_goals_admin(t, c, l, o)
    \/ Ready /\ \E t \in Tokens : root(t)
    \/ Ready /\ \E t \in Tokens : health_check(t)

SpecResources == InitResources /\ [][NextResources]_vars

(***************************************************************************)
(* The resource endpoints together with login.                             *)
(***************************************************************************)
NextFrame ==
    \/ NextResources
    \/ Ready /\ \E u \in Usernames \cup {"root"}, pw \in Passwords : login(u, pw)

SpecFrame == InitResources /\ [][NextFrame]_vars

(***************************************************************************)
(* The create and update endpoints under partial bodies: fields left out,  *)
(* fields given as null, keys the schema does not have; the clock advances *)
(* between requests.  The callers are the customer and the admin.          *)
(***************************************************************************)
MaxClock == 2                    \* seconds the clock advances
MaxEntities == 1                 \* entities created before the updates

Tick ==
    /\ now < MaxClock
    /\ now' = now + 1
    /\ UNCHANGED <<users, plain, regs, issued, tasks, habits, notes, goals, seq, resp>>

Callers == {t \in issued : t.role \in UserRole}

NoFields == [k \in {} |-> Null]

PartialBodies ==
    { NoFields,
      [title |-> Val("t2")],
      [title |-> Null],
      [description |-> Val("d2"), user_id |-> Val(3)],
      [is_completed |-> Val(TRUE), completed_at |-> Val(7)],
      [is_completed |-> Val(FALSE), completed_at |-> Val(7)],
      [is_completed |-> Null],
      [content |-> Null, goal_date |-> Val("2024-01-16"), due_date |-> Val(9)] }

NextUpdates ==
    \/ Deliver
    \/ Tick
    \/ Ready /\ TotalRows < MaxEntities /\ \E t \in Callers :
          create_task(t, [title |-> Val("t1"), description |-> Val("d1")])
    \/ Ready /\ TotalRows < MaxEntities /\ \E t \in Callers :
          create_habit(t, [title |-> Val("t1")])
    \/ Ready /\ TotalRows < MaxEntities /\ \E t \in Callers :
          create_note(t, [title |-> Val("t1"), content |-> Val("c1")])
    \/ Ready /\ TotalRows < MaxEntities /\ \E t \in Callers :
          create_daily_goal(t, [title |-> Val("t1"), description |-> Val("d1"),
                                goal_date |-> Val("2024-01-15")])
    \/ Ready /\ \E t \in Callers, i \in Ids, b \in PartialBodies : update_task(t, i, b)
    \/ Ready /\ \E t \in Callers, i \in Ids, b \in PartialBodies : update_habit(t, i, b)
    \/ Ready /\ \E t \in Callers, i \in Ids, b \in PartialBodies : update_note(t, i, b)
    \/ Ready /\ \E t \in Callers, i \in Ids, b \in PartialBodies : update_daily_goal(t, i, b)

SpecUpdates == InitResources /\ [][NextUpdates]_vars

(***************************************************************************)
(* Habits served by two worker processes on one database (PostgreSQL at    *)
(* its default READ COMMITTED).  update_habit loads the row, sets the      *)
(* attributes of update_data on the loaded object, and its commit writes   *)
(* the attributes whose value differs from the loaded one; get_habit_stats *)
(* runs two count queries, each on the rows committed when it runs.        *)
(***************************************************************************)
RaceBodies == { [is_completed |-> Val(TRUE)], [is_completed |-> Val(FALSE)],
                [title |-> Val("t2")] }

\* lines 146-160: the SELECT and the checks; the loaded row stays with the worker
update_habit_load(w, token, habit_id, body) ==
    LET current_user == get_current_user(token)
        req == [actor |-> current_user, id |-> habit_id, body |-> body]
    IN /\ regs[w].pc = "idle"
       /\ IF current_user = 0
          THEN resp' = Unauthenticated("update_habit", req) /\ UNCHANGED regs
          ELSE IF habit_id \notin DOMAIN habits
          THEN /\ resp' = HTTPException("update_habit", req, 404, "Habit not found")
               /\ UNCHANGED regs
          ELSE IF users[current_user].role # "ADMIN" /\ habits[habit_id].user_id # current_user
          THEN /\ resp' = HTTPException("update_habit", req, 403, "You can only update your own habits")
               /\ UNCHANGED regs
          ELSE /\ regs' = [regs EXCEPT ![w] = [pc |-> "update", req |-> req,
                                                habit |-> habits[habit_id]]]
               /\ UNCHANGED resp
       /\ UNCHANGED <<users, plain, now, issued, tasks, habits, notes, goals, seq>>

\* the attributes the unit of work writes: those set to a value other than the
\* loaded one
NetChanges(loaded, update_data) ==
    [k \in {f \in DOMAIN update_data : update_data[f] # loaded[f]} |-> update_data[k]]

\* lines 162-176: update_data, setattr, the UPDATE of db.commit() on the row as
\* it is now, db.refresh() and the response
update_habit_commit(w) ==
    /\ regs[w].pc = "update"
    /\ LET req == regs[w].req
           habit_id == req.id
           written == NetChanges(regs[w].habit, habit_update_data(req.body, now))
       IN IF habit_id \notin DOMAIN habits
          THEN /\ resp' = HTTPException("update_habit", req, 500,
                                        <<"Failed to update habit: ", "StaleDataError">>)
               /\ UNCHANGED habits                              \* db.rollback()
          ELSE LET habit == Apply(habits[habit_id], written)
               IN IF ~HabitNotNull(habit)
                  THEN /\ resp' = HTTPException("update_habit", req, 500,
                                                <<"Failed to update habit: ", NotNullViolationText>>)
                       /\ UNCHANGED habits                       \* db.rollback()
                  ELSE /\ habits' = [habits EXCEPT ![habit_id] = habit]
                       /\ resp' = Respond("update_habit", req, 200, HabitSchema(habit_id, habit),
                                          ValidHabitSchema(HabitSchema(habit_id, habit)))
    /\ regs' = [regs EXCEPT ![w] = Idle]
    /\ UNCHANGED <<users, plain, now, issued, tasks, notes, goals, seq>>

\* lines 233-234: the first count query; its result stays with the worker
get_habit_stats_total(w, token) ==
    LET current_user == get_current_user(token)
        req == [actor |-> current_user]
        total_habits == Cardinality({i \in DOMAIN habits : habits[i].user_id = current_user})
    IN /\ regs[w].pc = "idle"
       /\ IF current_user = 0
          THEN resp' = Unauthenticated("get_habit_stats", req) /\ UNCHANGED regs
          ELSE /\ regs' = [regs EXCEPT ![w] = [pc |-> "stats", req |-> req,
                                                total_habits |-> total_habits]]
               /\ UNCHANGED resp
       /\ UNCHANGED <<users, plain, now, issued, tasks, habits, notes, goals, seq>>

\* lines 235-245: the second count query, on the rows as they are now, the
\* difference and the response
get_habit_stats_completed(w) ==
    /\ regs[w].pc = "stats"
    /\ LET req == regs[w].req
           total_habits == regs[w].total_habits
           completed_habits == Cardinality({i \in DOMAIN habits :
                                               /\ habits[i].user_id = req.actor
                                               /\ habits[i].is_completed = Val(TRUE)})
       IN resp' = Reply("get_habit_stats", req, 200,
                        [total_habits |-> total_habits,
                         completed_habits |-> completed_habits,
                         incomplete_habits |-> total_habits - completed_habits])
    /\ regs' = [regs EXCEPT ![w] = Idle]
    /\ UNCHANGED <<users, plain, now, issued, tasks, habits, notes, goals, seq>>

NextRace ==
    \/ Deliver
    \/ Tick
    \/ Ready /\ TotalRows < MaxEntities /\ \E t \in Callers :
          create_habit(t, [title |-> Val("t1")])
    \/ Ready /\ \E w \in Procs, t \in Callers, i \in Ids, b \in RaceBodies :
          update_habit_load(w, t, i, b)
    \/ Ready /\ \E w \in Procs : update_habit_commit(w)
    \/ Ready /\ \E t \in Callers, i \in Ids : delete_habit(t, i)
    \/ Ready /\ \E w \in Procs, t \in Callers : get_habit_stats_total(w, t)
    \/ Ready /\ \E w \in Procs : get_habit_stats_completed(w)

SpecRace == InitResources /\ [][NextRace]_vars

(***************************************************************************)
(* Properties of registration and login.                                   *)
(***************************************************************************)
ConflictKinds == {"Username already exists", "Email already exists"}

\* C4: a register request whose username or email is that of a stored user is
\* answered with a conflict body (username or email already exists) and leaves
\* the users table as it was.
C4_RegisterConflict ==
    [][ ( /\ Answered
          /\ resp'.op = "register"
          /\ \E i \in 1..Len(users) : \/ users[i].username = resp'.req.username
                                      \/ users[i].email = resp'.req.email )
        => ( /\ "error" \in DOMAIN resp'.payload
             /\ resp'.payload.error \in ConflictKinds
             /\ users' = users ) ]_vars

\* a stored email is refused by the pre-check
C4_Witness ==
    /\ resp.op = "register"
    /\ "error" \in DOMAIN resp.payload
    /\ "backend_error" \notin DOMAIN resp.payload
    /\ resp.payload.error = "Email already exists"
    /\ \E i \in 1..Len(users) : users[i].email = resp.req.email

\* C5: under every interleaving of the workers, no two user rows share a
\* username and no two share an email.
C5_UsersUnique ==
    \A i, j \in 1..Len(users) :
        i # j => /\ users[i].username # users[j].username
                 /\ users[i].email # users[j].email

\* two requests passed the pre-check and the second was stopped at its INSERT
C5_Witness ==
    /\ resp.op = "register"
    /\ "backend_error" \in DOMAIN resp.payload
    /\ Len(users) >= 1

\* C6: a request whose duplicate is detected only at its INSERT is answered with
\* the conflict kind the pre-check would have given it.
C6_SameConflictKind ==
    (resp.op = "register" /\ "backend_error" \in DOMAIN resp.payload)
    => resp.payload.error \in
          { IF users[i].username = resp.req.username
            THEN "Username already exists" ELSE "Email already exists" :
            i \in {j \in 1..Len(users) : \/ users[j].username = resp.req.username
                                         \/ users[j].email = resp.req.email} }

\* C7: a login with the username and password of a registered user succeeds,
\* and its token carries that user's id and stored role.
C7_LoginAfterRegister ==
    resp.op = "login"
    => \A i \in 1..Len(users) :
          (users[i].username = resp.req.username /\ plain[i] = resp.req.password)
          => /\ resp.status = 200
             /\ resp.payload.token.sub = ToString(i)
             /\ resp.payload.token.role = users[i].role

\* C8: login looks the user up by username only: 401 and no token when no user
\* has that username (also when it is a stored email) or when the password is
\* not the registered one; a successful login returns the stored role.
C8_LoginByUsername ==
    resp.op = "login"
    => LET named == {i \in 1..Len(users) : users[i].username = resp.req.username}
       IN /\ named = {} => (resp.status = 401 /\ "token" \notin DOMAIN resp.payload)
          /\ (\E i \in named : plain[i] # resp.req.password)
                => (resp.status = 401 /\ "token" \notin DOMAIN resp.payload)
          /\ resp.status = 200
                => \E i \in named :
                      /\ plain[i] = resp.req.password
                      /\ resp.payload.role = IF users[i].role \in {None, ""}
                                          THEN "CUSTOMER" ELSE users[i].role
                      /\ resp.payload.token.role = resp.payload.role

\* a stored user's email given as the username, with that user's password: 401
C8_Witness ==
    /\ resp.op = "login"
    /\ resp.status = 401
    /\ \E i \in 1..Len(users) : /\ users[i].email = resp.req.username
                                /\ plain[i] = resp.req.password

\* C9: every issued token's expiry is exactly 24 hours after its issued-at.
C9_TokenLifetime ==
    (resp.op \in {"login", "register"} /\ "token" \in DOMAIN resp.payload)
    => resp.payload.token.exp = resp.payload.token.iat + DaySeconds

(***************************************************************************)
(* Properties of the resource endpoints.                                   *)
(***************************************************************************)
GetOps == {"get_single_task", "get_habit", "get_note", "get_daily_goal"}
UpdateOps == {"update_task", "update_habit", "update_note", "update_daily_goal"}
DeleteOps == {"delete_task", "delete_habit", "delete_note", "delete_daily_goal"}
CreateOps == {"create_task", "create_habit", "create_note", "create_daily_goal"}
AdminListOps == {"get_all_tasks_admin", "get_all_habits_admin", "get_all_daily_goals_admin"}
OwnListOps == {"get_tasks", "get_my_habits", "get_user_notes", "get_daily_goals",
               "get_user_daily_goals"}

\* the tables, by the kind of entity an endpoint works on
Tables == [task |-> tasks, habit |-> habits, note |-> notes, goal |-> goals]

Kind(op) ==
    IF op \in {"create_task", "get_tasks", "get_single_task", "update_task", "delete_task",
               "get_all_tasks_admin"} THEN "task"
    ELSE IF op \in {"create_habit", "get_my_habits", "get_all_habits_admin", "get_habit",
                    "update_habit", "delete_habit", "get_habit_stats"} THEN "habit"
    ELSE IF op \in {"create_note", "get_user_notes", "get_note", "update_note", "delete_note"}
    THEN "note"
    ELSE "goal"

\* the owner's id in an entity of a response body
OwnerIn(op, entity) ==
    IF op \in {"get_my_habits", "get_user_notes"} THEN entity.user_id ELSE entity.user.id

\* C1: a get-single, update or delete request on an entity that exists is
\* allowed if and only if the actor's role is ADMIN or the actor is the
\* entity's owner: every other actor is answered 403 and the entity stays as
\* it is, and every allowed actor (the owner, and an ADMIN on any user's
\* entity) succeeds, a delete removing the entity
C1_OwnerOrAdmin ==
    [][(/\ Answered
        /\ resp'.op \in GetOps \cup UpdateOps \cup DeleteOps
        /\ resp'.req.actor # 0
        /\ resp'.req.id \in DOMAIN Tables[Kind(resp'.op)])
       => LET actor == resp'.req.actor
              id == resp'.req.id
              allowed == users[actor].role = "ADMIN" \/ Tables[Kind(resp'.op)][id].user_id = actor
          IN /\ ~allowed => (resp'.status = 403 /\ Tables'[Kind(resp'.op)] = Tables[Kind(resp'.op)])
             /\ allowed => /\ resp'.status = 200
                           /\ resp'.op \in DeleteOps => id \notin DOMAIN Tables'[Kind(resp'.op)]
      ]_vars

\* C2: in get-single, update and delete of every resource type existence is
\* checked before permission: an id that resolves to no entity is answered
\* 404 for every actor, and 403 is answered only when the entity exists and
\* the actor is neither its owner nor an ADMIN
C2_ExistenceBeforePermission ==
    [][(/\ Answered
        /\ resp'.op \in GetOps \cup UpdateOps \cup DeleteOps
        /\ resp'.req.actor # 0)
       => LET actor == resp'.req.actor
              id == resp'.req.id
          IN /\ id \notin DOMAIN Tables[Kind(resp'.op)] => resp'.status = 404
             /\ resp'.status = 403 =>
                   /\ id \in DOMAIN Tables[Kind(resp'.op)]
                   /\ Tables[Kind(resp'.op)][id].user_id # actor
                   /\ users[actor].role # "ADMIN"
      ]_vars

\* a non-admin is told 404 for the id of a note that was deleted, while
\* another user's note exists
C2_Witness ==
    /\ resp.op = "get_note"
    /\ resp.status = 404
    /\ users[resp.req.actor].role # "ADMIN"
    /\ resp.req.id <= seq.note
    /\ resp.req.id \notin DOMAIN notes
    /\ \E i \in DOMAIN notes : notes[i].user_id # resp.req.actor

\* C3: every list-all endpoint answers 403 for an actor whose role is not
\* ADMIN, also when the actor owns entities, and for an ADMIN returns the
\* entities of all users that its filters select; the lists of the other
\* endpoints never hold entities of more than one owner
C3_AdminListings ==
    [][Answered
       => /\ (resp'.op \in AdminListOps /\ resp'.req.actor # 0)
                => IF users[resp'.req.actor].role # "ADMIN"
                   THEN resp'.status = 403
                   ELSE /\ resp'.status = 200
                        /\ resp'.op = "get_all_tasks_admin"
                              => {resp'.payload[i].id : i \in DOMAIN resp'.payload} = DOMAIN tasks
          /\ (resp'.op \in OwnListOps /\ resp'.status = 200)
                => \A i, j \in DOMAIN resp'.payload :
                      OwnerIn(resp'.op, resp'.payload[i]) = OwnerIn(resp'.op, resp'.payload[j])
      ]_vars

\* C10: every create of a Task, Habit or DailyGoal yields an entity with
\* is_completed = false (for a Habit, completed_at empty) whatever the body
\* holds, and every created Task, Habit, Note or DailyGoal has the actor's id
\* as its user_id; a 201 answer shows the same
C10_CreateDefaults ==
    [][(Answered /\ resp'.op \in CreateOps /\ resp'.req.actor # 0)
       => LET old == Tables[Kind(resp'.op)]
              new == Tables'[Kind(resp'.op)]
              created == DOMAIN new \ DOMAIN old
          IN /\ Cardinality(created) = 1
             /\ \A i \in created :
                   /\ new[i].user_id = resp'.req.actor
                   /\ resp'.op # "create_note" => new[i].is_completed = Val(FALSE)
                   /\ resp'.op = "create_habit" => new[i].completed_at = Null
                   /\ resp'.status = 201 =>
                         /\ resp'.payload.id = i
                         /\ resp'.op # "create_note" => resp'.payload.is_completed = Val(FALSE)
                         /\ resp'.op = "create_habit" => resp'.payload.completed_at = Null
                         /\ OwnerIn(IF resp'.op = "create_note" THEN "get_user_notes" ELSE resp'.op,
                                    resp'.payload) = resp'.req.actor
      ]_vars

\* a customer's create_task whose body asks for is_completed = true and for
\* another user's id is answered 201 and stored uncompleted under the actor
C10_Witness ==
    /\ resp.op = "create_task"
    /\ resp.status = 201
    /\ "is_completed" \in DOMAIN resp.req.body /\ resp.req.body.is_completed = Val(TRUE)
    /\ "user_id" \in DOMAIN resp.req.body /\ resp.req.body.user_id # Val(resp.req.actor)
    /\ resp.payload.id \in DOMAIN tasks
    /\ tasks[resp.payload.id].is_completed = Val(FALSE)
    /\ tasks[resp.payload.id].user_id = resp.req.actor

(***************************************************************************)
(* Properties of updates.                                                  *)
(***************************************************************************)
\* C11: in every state reached by habit creates and updates (also updates
\* giving only title or description, and updates giving is_completed as
\* null) each stored habit has completed_at non-empty if and only if its
\* is_completed is true
C11_CompletedAtIffCompleted ==
    \A i \in DOMAIN habits :
        (habits[i].completed_at # Null) <=> (habits[i].is_completed = Val(TRUE))

\* a habit was updated with is_completed given as null: the row holds
\* neither a completion flag nor a completion time
C11_Witness ==
    /\ resp.op = "update_habit"
    /\ resp.req.id \in DOMAIN habits
    /\ "is_completed" \in DOMAIN resp.req.body
    /\ resp.req.body.is_completed = Null
    /\ habits[resp.req.id].is_completed = Null
    /\ habits[resp.req.id].completed_at = Null

\* C12: a habit update giving is_completed = true sets completed_at to the
\* current time and one giving is_completed = false clears it, in the same
\* call and whatever completed_at the caller sent
C12_CompletedAtFollows ==
    [][(/\ Answered
        /\ resp'.op = "update_habit"
        /\ resp'.status = 200
        /\ "is_completed" \in DOMAIN resp'.req.body)
       => LET id == resp'.req.id
              given == resp'.req.body.is_completed
          IN /\ habits'[id].is_completed = given
             /\ given = Val(TRUE) => habits'[id].completed_at = Val(now)
             /\ given = Val(FALSE) => habits'[id].completed_at = Null
      ]_vars

\* a habit created at time 0 is completed at a later time by an update that
\* also sends a completed_at of its own
C12_Witness ==
    /\ resp.op = "update_habit"
    /\ resp.status = 200
    /\ "completed_at" \in DOMAIN resp.req.body
    /\ resp.req.body.is_completed = Val(TRUE)
    /\ now > 0
    /\ habits[resp.req.id].created_at = 0
    /\ habits[resp.req.id].completed_at = Val(now)
    /\ resp.req.body.completed_at # Val(now)

\* the fields an update body may set, by kind of entity
UpdateFields ==
    [task |-> TaskUpdateFields, habit |-> HabitUpdateFields, note |-> NoteUpdateFields,
     goal |-> DailyGoalUpdateFields]

\* C13: a successful update of a Task, Note, DailyGoal or Habit giving the
\* set S of fields sets every field of S to the given value and leaves the
\* other fields as they were (but Habit.completed_at, which follows
\* is_completed) and the other entities untouched; with no field given
\* nothing changes
C13_PartialUpdate ==
    [][(Answered /\ resp'.op \in UpdateOps /\ resp'.status = 200)
       => LET kind == Kind(resp'.op)
              id == resp'.req.id
              body == resp'.req.body
              S == DOMAIN body \cap UpdateFields[kind]
              old == Tables[kind][id]
              new == Tables'[kind][id]
          IN /\ DOMAIN new = DOMAIN old
             /\ \A k \in DOMAIN old :
                   IF k \in S THEN new[k] = body[k]
                   ELSE IF kind = "habit" /\ k = "completed_at" /\ "is_completed" \in S
                   THEN TRUE
                   ELSE new[k] = old[k]
             /\ \A j \in DOMAIN Tables[kind] \ {id} : Tables'[kind][j] = Tables[kind][j]
             /\ DOMAIN Tables'[kind] = DOMAIN Tables[kind]
             /\ \A other \in DOMAIN Tables \ {kind} : Tables'[other] = Tables[other]
             /\ S = {} => Tables' = Tables
      ]_vars

\* a task whose title an earlier update changed gets a new description by
\* an update that also names an owner: title and owner stay
C13_Witness ==
    /\ resp.op = "update_task"
    /\ resp.status = 200
    /\ DOMAIN resp.req.body = {"description", "user_id"}
    /\ tasks[resp.req.id].description = resp.req.body.description
    /\ tasks[resp.req.id].title = Val("t2")
    /\ Val(tasks[resp.req.id].user_id) # resp.req.body.user_id

\* C14: the user_id of every Task, Habit, Note and DailyGoal is the id of
\* the actor that created it: it is set at creation and no later request of
\* the owner or of an ADMIN, whatever its body, changes it
C14_OwnerImmutable ==
    [][\A kind \in DOMAIN Tables : \A i \in DOMAIN Tables'[kind] :
          IF i \in DOMAIN Tables[kind]
          THEN Tables'[kind][i].user_id = Tables[kind][i].user_id
          ELSE Tables'[kind][i].user_id = resp'.req.actor
      ]_vars

\* the ADMIN updated another user's note with a body naming the ADMIN as
\* user_id: the note is still its creator's
C14_Witness ==
    /\ resp.op = "update_note"
    /\ resp.status = 200
    /\ users[resp.req.actor].role = "ADMIN"
    /\ "user_id" \in DOMAIN resp.req.body
    /\ resp.req.body.user_id = Val(resp.req.actor)
    /\ notes[resp.req.id].user_id # resp.req.actor

\* C15: delete is a hard delete: a successful delete of an id leaves the
\* entity absent from the store (and the other entities as they were), an
\* absent id stays absent, every get, update or delete of an absent id by any
\* actor is answered 404 and changes nothing, and no list result holds an
\* entity that is not in the store
C15_HardDelete ==
    [][/\ (Answered /\ resp'.op \in DeleteOps /\ resp'.status = 200)
            => LET kind == Kind(resp'.op)
                   id == resp'.req.id
               IN /\ id \in DOMAIN Tables[kind]
                  /\ DOMAIN Tables'[kind] = DOMAIN Tables[kind] \ {id}
                  /\ \A j \in DOMAIN Tables'[kind] : Tables'[kind][j] = Tables[kind][j]
                  /\ \A other \in DOMAIN Tables \ {kind} : Tables'[other] = Tables[other]
       /\ \A kind \in DOMAIN Tables : \A i \in 1..seq[kind] :
             i \notin DOMAIN Tables[kind] => i \notin DOMAIN Tables'[kind]
       /\ (/\ Answered
           /\ resp'.op \in GetOps \cup UpdateOps \cup DeleteOps
           /\ resp'.req.actor # 0
           /\ resp'.req.id \notin DOMAIN Tables[Kind(resp'.op)])
            => (resp'.status = 404 /\ Tables' = Tables)
       /\ (Answered /\ resp'.op \in OwnListOps \cup AdminListOps /\ resp'.status = 200)
            => \A i \in DOMAIN resp'.payload : resp'.payload[i].id \in DOMAIN Tables[Kind(resp'.op)]
      ]_vars

\* the ADMIN asks for a task that was created and deleted, while another
\* entity is stored: 404
C15_Witness ==
    /\ resp.op = "get_single_task"
    /\ resp.status = 404
    /\ users[resp.req.actor].role = "ADMIN"
    /\ resp.req.id <= seq.task
    /\ resp.req.id \notin DOMAIN tasks
    /\ \E kind \in DOMAIN Tables : DOMAIN Tables[kind] # {}

(***************************************************************************)
(* Properties of the listings.                                             *)
(***************************************************************************)
PerUserListOps == {"get_tasks", "get_my_habits", "get_user_notes", "get_daily_goals"}

\* the text column a search looks at besides title, by kind of entity
SecondaryText == [task |-> "description", note |-> "content", goal |-> "description"]

\* the ids a response body lists, in the order of the body
ListedIds(body) == [i \in DOMAIN body |-> body[i].id]

\* the rows of the actor that match every filter the request supplies
Matching(op, req, table) ==
    {i \in DOMAIN table :
        /\ table[i].user_id = req.actor
        /\ ("completed" \in DOMAIN req /\ req.completed # Null)
              => table[i].is_completed = req.completed
        /\ ("goal_date" \in DOMAIN req /\ req.goal_date # Null)
              => table[i].goal_date = req.goal_date
        /\ ("search" \in DOMAIN req /\ req.search # Null)
              => \/ ILike(table[i].title, req.search)
                 \/ ILike(table[i][SecondaryText[Kind(op)]], req.search)}

\* C22: each per-user list operation (tasks, habits /my, notes, daily-goals)
\* returns exactly the entities whose user_id is the actor's id and that
\* match every supplied filter, ordered newest-first by creation time (for
\* daily-goals the requested page of that ordering), and never an entity of
\* another user, also for an ADMIN actor
C22_PerUserLists ==
    [][(Answered /\ resp'.op \in PerUserListOps /\ resp'.req.actor # 0)
       => LET table == Tables[Kind(resp'.op)]
              req == resp'.req
              matching == Matching(resp'.op, req, table)
          IN /\ resp'.status = 200
             /\ \E s \in NewestFirst(table, matching) :
                   ListedIds(resp'.payload) =
                      IF resp'.op = "get_daily_goals" THEN Page(s, req.limit, req.offset) ELSE s
             /\ \A i \in DOMAIN resp'.payload :
                   table[resp'.payload[i].id].user_id = req.actor
      ]_vars

\* the rows a list operation selects before ordering and paging
Selected(op, req, table) ==
    IF op \in PerUserListOps THEN Matching(op, req, table)
    ELSE IF op = "get_user_daily_goals" THEN {i \in DOMAIN table : table[i].user_id = req.user_id}
    ELSE IF op = "get_all_daily_goals_admin"
    THEN {i \in DOMAIN table : ~req.show_completed => table[i].is_completed = Val(FALSE)}
    ELSE IF op = "get_all_habits_admin"
    THEN {i \in DOMAIN table :
             /\ req.user_id # Null => Val(table[i].user_id) = req.user_id
             /\ req.completed # Null => table[i].is_completed = req.completed}
    ELSE DOMAIN table

\* the limit and offset of a request's query string: a route that declares
\* no such parameter ignores them, so its answer is the answer to each
AskedLimits(req) == IF "limit" \in DOMAIN req THEN {req.limit} ELSE Limits
AskedOffsets(req) == IF "offset" \in DOMAIN req THEN {req.offset} ELSE Offsets

\* C23: every list operation of the four resource stores paginates with a
\* limit and an offset: it never returns more than limit entities in one
\* response, and the entities returned are those at positions
\* offset .. offset+limit-1 of the newest-first ordering
C23_Paginated ==
    [][(Answered /\ resp'.op \in OwnListOps \cup AdminListOps /\ resp'.status = 200)
       => LET table == Tables[Kind(resp'.op)]
              req == resp'.req
          IN \A limit \in AskedLimits(req), offset \in AskedOffsets(req) :
                /\ Len(resp'.payload) <= limit
                /\ \E s \in NewestFirst(table, Selected(resp'.op, req, table)) :
                      ListedIds(resp'.payload) = Page(s, limit, offset)
      ]_vars

(***************************************************************************)
(* Further properties of registration and login.                           *)
(***************************************************************************)
\* C16: in every reachable state each stored user's role is one of the two
\* canonical values CUSTOMER and ADMIN, whatever role string the
\* registration supplied
C16_CanonicalRoles ==
    \A i \in 1..Len(users) : users[i].role \in UserRole

\* C17: when the stored password hash of the looked-up user is malformed
\* or absent, login answers 401 as for a wrong password, never a 500
C17_BadHashIs401 ==
    (/\ resp.op = "login"
     /\ \E i \in FindUser(resp.req.username) : users[i].password_hash.scheme # "bcrypt")
        => resp.status = 401

\* C21: a registration that fails (duplicate username, duplicate email,
\* integrity or other database error) is answered with HTTP status 200 and
\* a body with an "error" key, never with a 4xx or 5xx status, and a body
\* with an "error" key carries neither a token nor a user id
C21_RegisterErrorsAre200 ==
    [][(Answered /\ resp'.op = "register")
       => /\ resp'.status = 200
          /\ Len(users') = Len(users) => "error" \in DOMAIN resp'.payload
          /\ "error" \in DOMAIN resp'.payload
                => ("token" \notin DOMAIN resp'.payload /\ "id" \notin DOMAIN resp'.payload)
      ]_vars

\* the database failed under a registration while another user is stored
C21_Witness ==
    /\ resp.op = "register"
    /\ resp.status = 200
    /\ "error" \in DOMAIN resp.payload
    /\ resp.payload.error = "Database error"
    /\ Len(users) >= 1
    /\ \A i \in 1..Len(users) : users[i].username # resp.req.username

\* the payload shows a password or a password hash: as a field of its own or
\* among the parameters of a statement it quotes
ShowsCredential(payload) ==
    \/ DOMAIN payload \cap {"password", "password_hash"} # {}
    \/ /\ "error" \in DOMAIN payload
       /\ payload.error = "Database error"
       /\ DOMAIN payload.backend_error.parameters \cap {"password", "password_hash"} # {}

\* C24: the stored password_hash of a user is never the plaintext password
\* supplied at registration, and no response of register or login contains
\* the plaintext password or the password_hash
C24_NoCredentialInResponse ==
    /\ \A i \in 1..Len(users) :
          ~(users[i].password_hash.scheme = "plaintext"
            /\ users[i].password_hash.digest = plain[i])
    /\ resp.op \in {"register", "login"} => ~ShowsCredential(resp.payload)

(***************************************************************************)
\* C25: when an unexpected storage or runtime failure occurs in an
\* operation, the client receives a 500 whose message is a generic
\* description with no internal detail of the failure (no raw exception or
\* database error text)
C25_GenericInternalError ==
    resp.status = 500
    => /\ "detail" \in DOMAIN resp.payload
             => \A k \in DOMAIN resp.payload.detail : resp.payload.detail[k] \notin ExceptionTexts
       /\ "message" \in DOMAIN resp.payload => resp.payload.message \notin ExceptionTexts

\* C27: in every state reached by create and update requests is_completed
\* of every Task, Habit and DailyGoal is true or false, never null: an
\* update giving is_completed as null stores no null completion status
C27_CompletionNeverNull ==
    \A kind \in {"task", "habit", "goal"} : \A i \in DOMAIN Tables[kind] :
        Tables[kind][i].is_completed \in {Val(TRUE), Val(FALSE)}

(***************************************************************************)
(* Frame properties.                                                       *)
(***************************************************************************)
\* C28: a user's id, username, email, password_hash and role are fixed at
\* registration: no login, resource create, get, list, update or delete and
\* no admin request, by that user or any other actor, changes any of them,
\* and no operation removes a user row
C28_UserRowsFixed ==
    [][/\ Len(users') >= Len(users)
       /\ \A i \in 1..Len(users) : users'[i] = users[i]
      ]_vars

\* a user has logged in while the store holds an entity of that user which
\* another user, the ADMIN, has updated: the user rows are the registered ones
C28_Witness ==
    /\ resp.op = "login"
    /\ resp.status = 200
    /\ \E i \in DOMAIN notes :
          /\ users[notes[i].user_id].username = resp.req.username
          /\ notes[i].title = Val("t2")
    /\ users = SeedUsers

\* the entities of table after that are not as they were in table before
Changed(before, after) ==
    {i \in DOMAIN before \cup DOMAIN after :
        \/ i \notin DOMAIN before
        \/ i \notin DOMAIN after
        \/ after[i] # before[i]}

ReadOps == GetOps \cup AdminListOps \cup OwnListOps \cup {"get_habit_stats", "login"}

\* C30: each successful create, update or delete changes one entity of one
\* resource type, the one created or the one addressed by id (a create adds
\* it, a delete removes it, an update leaves every entity but it as it was),
\* and leaves every other entity of every type and every user row unchanged;
\* every get, list, stats and failed or successful login leaves the whole
\* store unchanged
C30_OneEntityPerRequest ==
    [][Answered =>
         LET op == resp'.op
             k == Kind(op)
             written == Changed(Tables[k], Tables'[k])
         IN /\ (op \in CreateOps \cup UpdateOps \cup DeleteOps /\ resp'.status \in {200, 201})
                  => /\ users' = users
                     /\ \A j \in DOMAIN Tables \ {k} : Tables'[j] = Tables[j]
                     /\ op \in CreateOps
                           => /\ Cardinality(written) = 1
                              /\ written \cap DOMAIN Tables[k] = {}
                              /\ written = {resp'.payload.id}
                     /\ op \in UpdateOps
                           => /\ written \subseteq {resp'.req.id}
                              /\ DOMAIN Tables'[k] = DOMAIN Tables[k]
                     /\ op \in DeleteOps
                           => /\ written = {resp'.req.id}
                              /\ DOMAIN Tables'[k] = DOMAIN Tables[k] \ {resp'.req.id}
            /\ op \in ReadOps => (Tables' = Tables /\ users' = users)
      ]_vars

\* daily goal 1 has been deleted while the store holds a second daily goal:
\* the second is still there
C30_Witness ==
    /\ resp.op = "delete_daily_goal"
    /\ resp.status = 200
    /\ resp.req.id = 1
    /\ DOMAIN goals = {2}
    /\ seq.goal = 2

(***************************************************************************)
(* Properties of concurrent requests.                                      *)
(***************************************************************************)
\* C26: under every interleaving of two concurrent update requests on the
\* same habit, once both are done the habit has completed_at non-empty if
\* and only if is_completed is true: a request setting is_completed = true
\* racing with one setting it to false does not leave is_completed = false
\* with a completed_at
C26_RaceKeepsCompletedAt ==
    (\A w \in Procs : regs[w].pc = "idle")
    => \A i \in DOMAIN habits :
          (habits[i].completed_at # Null) <=> (habits[i].is_completed = Val(TRUE))

\* C29: the habit statistics of an actor satisfy total_habits =
\* completed_habits + incomplete_habits with all three counts non-negative,
\* also when other requests create, complete or delete the actor's habits
\* between the two count queries
C29_StatsConsistent ==
    (resp.op = "get_habit_stats" /\ resp.status = 200)
    => /\ resp.payload.total_habits
             = resp.payload.completed_habits + resp.payload.incomplete_habits
       /\ resp.payload.total_habits >= 0
       /\ resp.payload.completed_habits >= 0
       /\ resp.payload.incomplete_habits >= 0

(***************************************************************************)
(* Properties of failed and unauthenticated requests.                      *)
(***************************************************************************)
\* C18: failed operations roll back fully: whenever a create, update,
\* delete or register request is answered with an error (403, 404, a
\* conflict, 422 or 500) the persistent store is what it was before the
\* request
C18_FailedRequestsChangeNothing ==
    [][/\ (/\ Answered
           /\ resp'.op \in CreateOps \cup UpdateOps \cup DeleteOps
           /\ resp'.status \in {403, 404, 409, 422, 500})
            => (Tables' = Tables /\ users' = users)
       /\ (/\ Answered
           /\ resp'.op = "register"
           /\ (resp'.status \in {409, 422, 500} \/ "error" \in DOMAIN resp'.payload))
            => (Tables' = Tables /\ users' = users)
      ]_vars

\* the endpoints that work on the resource tables
ResourceOps ==
    GetOps \cup UpdateOps \cup DeleteOps \cup CreateOps \cup AdminListOps \cup OwnListOps
        \cup {"get_habit_stats"}

\* C19: every endpoint except registration and login requires a valid
\* bearer token: a request to any other endpoint with a missing, invalid or
\* expired token is answered 401 and neither reads nor changes any entity
C19_TokenRequired ==
    [][/\ (Answered /\ resp'.op \in ResourceOps /\ resp'.req.actor = 0)
            => (resp'.status = 401 /\ Tables' = Tables /\ users' = users)
       /\ (/\ Answered
           /\ resp'.op \in {"root", "health_check"}
           /\ get_current_user(resp'.req.token) = 0)
            => (resp'.status = 401 /\ Tables' = Tables /\ users' = users)
      ]_vars

\* C20: a successful registration is answered with HTTP status 201
C20_RegisterCreated ==
    (resp.op = "register" /\ "id" \in DOMAIN resp.payload) => resp.status = 201

====
